---------------------------- MODULE Spec2Model ----------------------------
(***************************************************************************)
(* The VM disk builder of distrobuilder/vm.go: one builder (struct vm)     *)
(* driving host tools (sgdisk, losetup, lsblk, mknod, mkfs.*, mount,       *)
(* umount, btrfs, blkid) against one image file.                           *)
(*                                                                         *)
(* The builder's fields are the variable v; everything the host tools act  *)
(* on (the image file, the loop devices, the files under /dev, the mount   *)
(* table) is the variable host.  Every method of vm is one action: the     *)
(* whole method, with each host command it runs either succeeding with its *)
(* effect or failing without one.                                          *)
(*                                                                         *)
(* Byte sizes are counted in MiB (TLC's integers are 32 bits wide):        *)
(* 4294967296 bytes = 4096 MiB.                                            *)
(***************************************************************************)
EXTENDS Integers, Sequences, FiniteSets, TLC

VARIABLES v, host, last, prev, rt, faults

vars == <<v, host, last, prev, rt, faults>>

-----------------------------------------------------------------------------
(* Bounds of the model.                                                    *)

\* Number of loop devices the host has (/dev/loop0 .. /dev/loop<N-1>).
NumLoops == 2

\* Most mounts the mount table holds at once.
MaxMounts == 2

\* Most irregular events in one run: a host command that fails for reasons
\* of its own, a malformed output of the numbering query, a file taken away
\* from outside, a detach of a loop device that is still mounted.
MaxFaults == 1

\* The sizes (MiB) newVM is given where the size is what matters.
MaxSize == 24

-----------------------------------------------------------------------------
(* Text, as the Go standard library treats it.  A text is a sequence of    *)
(* one-character strings.                                                  *)

Digits == <<"0", "1", "2", "3", "4", "5", "6", "7", "8", "9">>

DigitVal(c) == CHOOSE d \in 0..9 : Digits[d + 1] = c

IsDigit(c) == \E d \in 0..9 : Digits[d + 1] = c

\* strconv.Itoa for n >= 0 (what lsblk prints for a device number).
RECURSIVE Itoa(_)
Itoa(n) == IF n < 10 THEN <<Digits[n + 1]>>
           ELSE Itoa(n \div 10) \o <<Digits[(n % 10) + 1]>>

\* The value of a non-empty sequence of digits.
RECURSIVE DigitsVal(_)
DigitsVal(s) == IF Len(s) = 0 THEN 0
                ELSE 10 * DigitsVal(SubSeq(s, 1, Len(s) - 1)) + DigitVal(s[Len(s)])

\* strconv.Atoi: an optional sign, then one or more digits; anything else
\* (the empty string included) is an error.
Atoi(s) ==
    LET signed == Len(s) > 0 /\ s[1] \in {"+", "-"}
        body   == IF signed THEN Tail(s) ELSE s
        ok     == Len(body) > 0 /\ \A i \in 1..Len(body) : IsDigit(body[i])
    IN  IF ~ok THEN [ok |-> FALSE, val |-> 0]
        ELSE [ok |-> TRUE,
              val |-> IF signed /\ s[1] = "-" THEN 0 - DigitsVal(body)
                      ELSE DigitsVal(body)]

\* strings.Split(s, sep) for a one-character sep: always at least one
\* element; Split("", sep) is <<"">>.
RECURSIVE Split(_, _)
Split(s, sep) ==
    IF \A i \in 1..Len(s) : s[i] # sep THEN <<s>>
    ELSE LET k == CHOOSE i \in 1..Len(s) :
                      s[i] = sep /\ \A j \in 1..(i - 1) : s[j] # sep
         IN  <<SubSeq(s, 1, k - 1)>> \o Split(SubSeq(s, k + 1, Len(s)), sep)

\* The output of a tool that prints one word and a newline, as the pieces
\* <<word, "\n">>; strings.TrimSpace drops the white space at both ends.
IsSpace(c) == c \in {" ", "\n", "\t", "\r"}

RECURSIVE TrimLeft(_)
TrimLeft(s) == IF Len(s) > 0 /\ IsSpace(s[1]) THEN TrimLeft(Tail(s)) ELSE s

RECURSIVE TrimRight(_)
TrimRight(s) == IF Len(s) > 0 /\ IsSpace(s[Len(s)])
                THEN TrimRight(SubSeq(s, 1, Len(s) - 1)) ELSE s

RECURSIVE Join(_)
Join(s) == IF Len(s) = 0 THEN "" ELSE s[1] \o Join(Tail(s))

TrimSpace(s) == Join(TrimRight(TrimLeft(s)))

\* unix.Mkdev for major < 4096 (the majors of this model are 7 and 259):
\* the low 12 bits of major above the low 8 bits of minor, the rest of minor
\* from bit 20 up.
Mkdev(major, minor) ==
    (major % 4096) * 256 + (minor % 256) + (minor \div 256) * 1048576

-----------------------------------------------------------------------------
(* The host: paths, device numbers and what each host tool does.           *)

\* No partition.
NoPart == <<>>

\* The arguments main passes to newVM for the two paths.
ImagePath == "/cache/disk.img"
RootfsPath == "/cache/rootfs"

LoopPath(i) == "/dev/loop" \o Digits[i + 1]

LoopPaths == {LoopPath(i) : i \in 0..(NumLoops - 1)}

LoopIndex(d) == CHOOSE i \in 0..(NumLoops - 1) : LoopPath(i) = d

\* <loop>p<k>, the name the kernel gives partition k of a loop device.
PartPath(d, k) == d \o "p" \o Digits[k + 1]

\* Device numbers the kernel hands out: loop devices are 7:<index>, their
\* partitions are block-extended devices 259:<n>.
LoopDevNo(i) == <<7, i>>
PartDevNo(i, k) == <<259, 2 * i + k - 1>>

FreeLoop == [backing |-> "", parts |-> 0, autoclear |-> FALSE]

NoImage == [exists |-> FALSE, mode |-> "", size |-> 0, table |-> <<>>,
            fs |-> <<"none", "none">>]

\* A function without the key k.
Without(f, k) == [x \in DOMAIN f \ {k} |-> f[x]]

\* A function with key k set to val.
With(f, k, val) == [x \in DOMAIN f \cup {k} |-> IF x = k THEN val ELSE f[x]]

\* lxd.PathExists, for the paths under /dev.
PathExists(h, path) == path \in DOMAIN h.nodes

\* The partitions <<loop device, k>> the kernel currently has.
LiveParts(h) ==
    {<<d, k>> \in LoopPaths \X {1, 2} :
        h.loops[d].backing # "" /\ k <= h.loops[d].parts}

\* The live partition with device number dev, or NoPart.
PartOfDev(h, dev) ==
    IF \E p \in LiveParts(h) :
           dev = Mkdev(PartDevNo(LoopIndex(p[1]), p[2])[1],
                       PartDevNo(LoopIndex(p[1]), p[2])[2])
    THEN CHOOSE p \in LiveParts(h) :
           dev = Mkdev(PartDevNo(LoopIndex(p[1]), p[2])[1],
                       PartDevNo(LoopIndex(p[1]), p[2])[2])
    ELSE NoPart

\* The live partition the device file at path names, or NoPart.
PartOfPath(h, path) ==
    IF PathExists(h, path) THEN PartOfDev(h, h.nodes[path].dev) ELSE NoPart

\* Whether something of loop device d is mounted.
LoopMounted(h, d) ==
    \E i \in 1..Len(h.mounts) :
        LET p == PartOfDev(h, h.mounts[i].dev) IN p # NoPart /\ p[1] = d

\* What a host command gives back: whether it succeeded, the host after it
\* and its standard output.  A command that fails changes nothing.  forced
\* marks a failure that was the tool's own (see RunCommand).
Failed(h) == [ok |-> FALSE, h |-> h, out |-> <<>>, forced |-> FALSE]

Done(h, out) == [ok |-> TRUE, h |-> h, out |-> out, forced |-> FALSE]

\* Loop devices whose last mount went away after a lazy detach are freed,
\* and the kernel takes the partition device files it made with it.
Autoclear(h) ==
    LET freed == {d \in LoopPaths : h.loops[d].autoclear /\ ~LoopMounted(h, d)}
        gone  == {q \in DOMAIN h.nodes :
                     /\ h.nodes[q].by = "kernel"
                     /\ \E d \in freed, k \in {1, 2} : q = PartPath(d, k)}
    IN  [h EXCEPT !.loops = [d \in LoopPaths |->
                                IF d \in freed THEN FreeLoop ELSE h.loops[d]],
                  !.nodes = [q \in DOMAIN h.nodes \ gone |-> h.nodes[q]]]

\* os.Create(path): a new empty file, or the old one emptied.
OsCreate(h, path) ==
    Done([h EXCEPT !.image = [exists |-> TRUE,
                              mode   |-> IF h.image.exists THEN h.image.mode
                                         ELSE "0644",
                              size   |-> 0,
                              table  |-> <<>>,
                              fs     |-> <<"none", "none">>]], <<>>)

\* f.Chmod(0600).
Chmod(h, mode) ==
    IF ~h.image.exists THEN Failed(h)
    ELSE Done([h EXCEPT !.image.mode = mode], <<>>)

\* f.Truncate(size): a sparse file of that size.
Truncate(h, size) ==
    IF ~h.image.exists \/ size < 0 THEN Failed(h)
    ELSE Done([h EXCEPT !.image.size = size], <<>>)

\* sgdisk <file> <args>: --zap-all erases the table (not the partitions'
\* contents), --new=1::+100M needs an empty slot 1 and 100 MiB, --new=2::
\* takes the rest.
Sgdisk(h, args) ==
    LET img == h.image IN
    IF args[1] # ImagePath \/ ~img.exists \/ img.size = 0 THEN Failed(h)
    ELSE IF args[2] = "--zap-all"
         THEN Done([h EXCEPT !.image.table = <<>>], <<>>)
    ELSE IF args[2] = "--new=1::+100M" /\ args[3] = "-t 1:EF00"
         THEN IF Len(img.table) # 0 \/ img.size <= 100 THEN Failed(h)
              ELSE Done([h EXCEPT !.image.table = <<"EF00">>], <<>>)
    ELSE IF args[2] = "--new=2::" /\ args[3] = "-t 2:8300"
         THEN IF Len(img.table) # 1 \/ img.size <= 101 THEN Failed(h)
              ELSE Done([h EXCEPT !.image.table = Append(img.table, "8300")], <<>>)
    ELSE Failed(h)

\* losetup -P -f --show <file>: binds the file to the first free loop device,
\* scans its partition table and prints the device's path.  udev: the
\* partitions whose device files appear by themselves (none when /dev is a
\* container's own).
LosetupAttach(h, args, udev) ==
    LET free == {d \in LoopPaths : h.loops[d].backing = ""} IN
    IF args # <<"-P", "-f", "--show", ImagePath>> \/ ~h.image.exists \/ free = {}
    THEN Failed(h)
    ELSE LET d  == CHOOSE x \in free :
                       \A y \in free : LoopIndex(x) <= LoopIndex(y)
             i  == LoopIndex(d)
             n  == Len(h.image.table)
             ks == {k \in udev : k <= n /\ ~PathExists(h, PartPath(d, k))}
             new == {d} \cup {PartPath(d, k) : k \in ks}
         IN  Done([h EXCEPT
                     !.loops[d] = [backing |-> ImagePath, parts |-> n,
                                   autoclear |-> FALSE],
                     !.nodes = [q \in DOMAIN h.nodes \cup new |->
                                  IF q = d
                                  THEN [dev |-> Mkdev(LoopDevNo(i)[1], LoopDevNo(i)[2]),
                                        by |-> "kernel"]
                                  ELSE IF \E k \in ks : q = PartPath(d, k)
                                  THEN LET k == CHOOSE k \in ks : q = PartPath(d, k)
                                       IN [dev |-> Mkdev(PartDevNo(i, k)[1],
                                                         PartDevNo(i, k)[2]),
                                           by |-> "kernel"]
                                  ELSE h.nodes[q]]],
                  <<d, "\n">>)

\* losetup -d <dev>: unbinds the device; while something of it is mounted the
\* kernel only marks it to be freed at the last unmount.  Fails on a device
\* that is not bound.
LosetupDetach(h, args) ==
    LET d == args[2] IN
    IF args[1] # "-d" \/ d \notin LoopPaths \/ ~PathExists(h, d) THEN Failed(h)
    ELSE IF h.loops[d].backing = "" THEN Failed(h)
    ELSE Done(Autoclear([h EXCEPT !.loops[d].autoclear = TRUE]), <<>>)

\* One line of lsblk --raw --output MAJ:MIN.
MajMinLine(no) == Itoa(no[1]) \o <<":">> \o Itoa(no[2]) \o <<"\n">>

\* What lsblk prints for a bound loop device: its own numbers, then one line
\* for each partition the kernel found.
LsblkLines(h, d) ==
    LET i == LoopIndex(d)
        n == h.loops[d].parts
    IN  MajMinLine(LoopDevNo(i))
        \o (IF n >= 1 THEN MajMinLine(PartDevNo(i, 1)) ELSE <<>>)
        \o (IF n >= 2 THEN MajMinLine(PartDevNo(i, 2)) ELSE <<>>)

\* The shapes of output mountImage may be handed: lsblk's own, and outputs
\* that are not what the parsing expects.
LsblkShapes == {"lsblk", "empty", "unterminated", "nocolon", "nonnumeric"}

\* The characters of s that are not c.
RECURSIVE Strip(_, _)
Strip(s, c) == IF Len(s) = 0 THEN <<>>
               ELSE (IF s[1] = c THEN <<>> ELSE <<s[1]>>) \o Strip(Tail(s), c)

Shaped(text, shape) ==
    CASE shape = "lsblk"        -> text
      [] shape = "empty"        -> <<>>
      [] shape = "unterminated" -> SubSeq(text, 1, Len(text) - 1)
      [] shape = "nocolon"      -> Strip(text, ":")
      [] shape = "nonnumeric"   -> [i \in 1..Len(text) |->
                                       IF text[i] = "9" THEN "x" ELSE text[i]]

\* lsblk --raw --output MAJ:MIN --noheadings <dev>.
Lsblk(h, args, shape) ==
    LET d == args[5] IN
    IF SubSeq(args, 1, 4) # <<"--raw", "--output", "MAJ:MIN", "--noheadings">>
       \/ d \notin LoopPaths \/ ~PathExists(h, d)
    THEN Failed(h)
    ELSE IF h.loops[d].backing = "" THEN Failed(h)
    ELSE Done(h, Shaped(LsblkLines(h, d), shape))

\* unix.Mknod(path, S_IFBLK|0644, dev).
Mknod(h, path, dev) ==
    IF PathExists(h, path) THEN Failed(h)
    ELSE Done([h EXCEPT !.nodes = With(h.nodes, path, [dev |-> dev, by |-> "mknod"])],
              <<>>)

\* os.Remove(path).
OsRemove(h, path) ==
    IF ~PathExists(h, path) THEN Failed(h)
    ELSE Done([h EXCEPT !.nodes = Without(h.nodes, path)], <<>>)

\* Whether the block device dev is mounted somewhere.
DevMounted(h, dev) == \E i \in 1..Len(h.mounts) : h.mounts[i].dev = dev

\* mkfs.<kind> <dev>: needs a device file that names a live partition which
\* is not mounted.
Mkfs(h, kind, path) ==
    LET p == PartOfPath(h, path) IN
    IF p = NoPart THEN Failed(h)
    ELSE IF DevMounted(h, h.nodes[path].dev) THEN Failed(h)
    ELSE Done([h EXCEPT !.image.fs[p[2]] = kind], <<>>)

\* mount <dev> <dir> [-o <opts>]: needs a live partition that holds a file
\* system (with the subvolume asked for) and is not mounted on dir already.
Mount(h, args) ==
    LET path == args[1]
        dir  == args[2]
        opts == IF Len(args) = 4 /\ args[3] = "-o" THEN args[4] ELSE ""
        p    == PartOfPath(h, path)
    IN  IF p = NoPart \/ Len(args) \notin {2, 4} THEN Failed(h)
        ELSE LET fs  == h.image.fs[p[2]]
                 dev == h.nodes[path].dev
             IN  IF \/ fs = "none"
                    \/ opts \notin {"", "defaults,subvol=/@"}
                    \/ (opts = "defaults,subvol=/@" /\ fs # "btrfs+@")
                    \/ \E i \in 1..Len(h.mounts) :
                          h.mounts[i].dev = dev /\ h.mounts[i].at = dir
                    \/ Len(h.mounts) >= MaxMounts
                 THEN Failed(h)
                 ELSE Done([h EXCEPT !.mounts =
                               Append(h.mounts, [dev |-> dev, at |-> dir,
                                                 opts |-> opts])], <<>>)

\* The topmost mount on dir (0: none).
TopMount(h, dir) ==
    IF \E i \in 1..Len(h.mounts) : h.mounts[i].at = dir
    THEN CHOOSE i \in 1..Len(h.mounts) :
            /\ h.mounts[i].at = dir
            /\ \A j \in (i + 1)..Len(h.mounts) : h.mounts[j].at # dir
    ELSE 0

EfiDir(dir) == dir \o "/boot/efi"

\* umount <dir>: takes the topmost mount off dir; fails when nothing is
\* mounted there or something is mounted beneath it.
Umount(h, args) ==
    LET dir == args[1]
        t   == TopMount(h, dir)
    IN  IF t = 0 THEN Failed(h)
        ELSE IF \E j \in (t + 1)..Len(h.mounts) : h.mounts[j].at = EfiDir(dir)
        THEN Failed(h)
        ELSE Done(Autoclear([h EXCEPT !.mounts =
                      SubSeq(h.mounts, 1, t - 1)
                      \o SubSeq(h.mounts, t + 1, Len(h.mounts))]), <<>>)

\* btrfs subvolume create <dir>/@: needs the top level of a btrfs file
\* system mounted on dir, without a subvolume @ yet.
BtrfsSubvolumeCreate(h, args) ==
    LET t == TopMount(h, RootfsPath) IN
    IF args # <<"subvolume", "create", RootfsPath \o "/@">> \/ t = 0 THEN Failed(h)
    ELSE LET p == PartOfDev(h, h.mounts[t].dev) IN
         IF p = NoPart \/ h.mounts[t].opts # "" THEN Failed(h)
         ELSE IF h.image.fs[p[2]] # "btrfs" THEN Failed(h)
         ELSE Done([h EXCEPT !.image.fs[p[2]] = "btrfs+@"], <<>>)

\* blkid -s PARTUUID -o value <dev>: prints the partition's GPT identifier.
Blkid(h, args) ==
    LET p == PartOfPath(h, args[5]) IN
    IF SubSeq(args, 1, 4) # <<"-s", "PARTUUID", "-o", "value">> \/ p = NoPart
    THEN Failed(h)
    ELSE Done(h, <<"partuuid-" \o Digits[p[2] + 1], "\n">>)

\* os.MkdirAll(dir, 0755): directories are not part of the modelled host.
MkdirAll(h, dir) == Done(h, <<>>)

\* A host command: the tool and its arguments.
Cmd(tool, args) == [tool |-> tool, args |-> args, num |-> 0]

\* A system call that also takes a number (a size, a device number).
Sys(tool, args, num) == [tool |-> tool, args |-> args, num |-> num]

\* What the host does with command c.  e.udev and e.shape are the choices
\* that are the host's own (see LosetupAttach and Lsblk).
HostRun(h, c, e) ==
    CASE c.tool = "os.Create"   -> OsCreate(h, c.args[1])
      [] c.tool = "Chmod"       -> Chmod(h, c.args[1])
      [] c.tool = "Truncate"    -> Truncate(h, c.num)
      [] c.tool = "sgdisk"      -> Sgdisk(h, c.args)
      [] c.tool = "losetup"     -> IF c.args[1] = "-d" THEN LosetupDetach(h, c.args)
                                   ELSE LosetupAttach(h, c.args, e.udev)
      [] c.tool = "lsblk"       -> Lsblk(h, c.args, e.shape)
      [] c.tool = "mknod"       -> Mknod(h, c.args[1], c.num)
      [] c.tool = "os.Remove"   -> OsRemove(h, c.args[1])
      [] c.tool = "mkfs.btrfs"  -> Mkfs(h, "btrfs", c.args[Len(c.args)])
      [] c.tool = "mkfs.ext4"   -> Mkfs(h, "ext4", c.args[Len(c.args)])
      [] c.tool = "mkfs.vfat"   -> Mkfs(h, "vfat", c.args[Len(c.args)])
      [] c.tool = "mount"       -> Mount(h, c.args)
      [] c.tool = "umount"      -> Umount(h, c.args)
      [] c.tool = "btrfs"       -> BtrfsSubvolumeCreate(h, c.args)
      [] c.tool = "blkid"       -> Blkid(h, c.args)
      [] c.tool = "os.MkdirAll" -> MkdirAll(h, c.args[1])

\* shared.RunCommand / lxd.RunCommand and the system calls: the n-th host
\* command of a method.  It fails when the host refuses it, and when n is in
\* e.fail: a tool may fail for reasons of its own at any time.
RunCommand(h, n, c, e) ==
    IF n \in e.fail THEN [Failed(h) EXCEPT !.forced = TRUE] ELSE HostRun(h, c, e)

\* The record of a command in the log of the method that ran it.
Ran(c, r) ==
    [tool |-> c.tool, args |-> c.args, num |-> c.num, ok |-> r.ok,
     forced |-> r.forced]

-----------------------------------------------------------------------------
(* The builder: struct vm and its methods.  A method gives back the        *)
(* builder and the host after it, what it returned (res: "ok" for a nil    *)
(* error, "err" with the message's prefix, "panic" when the Go runtime     *)
(* aborts the process), the host commands it ran, and its string result.   *)

\* The zero value of struct vm: no builder has been made.
NoVM == [imageFile |-> "", loopDevice |-> "", rootFS |-> "", rootfsDir |-> "",
         size |-> 0]

\* 4294967296 bytes, in MiB.
DefaultSize == 4096

Ok(vv, h, cmds, out) ==
    [v |-> vv, h |-> h, res |-> "ok", msg |-> "", cmds |-> cmds, out |-> out]

Err(vv, h, cmds, msg) ==
    [v |-> vv, h |-> h, res |-> "err", msg |-> msg, cmds |-> cmds, out |-> ""]

Panic(vv, h, cmds, msg) ==
    [v |-> vv, h |-> h, res |-> "panic", msg |-> msg, cmds |-> cmds, out |-> ""]

\* What a method returns when its n-th command r decides it: r's error
\* under the prefix msg, or success.
Returned(vv, r, cmds, msg) ==
    IF r.ok THEN Ok(vv, r.h, cmds, "") ELSE Err(vv, r.h, cmds, msg)

\* newVM that keeps a size of 0.
newVMKeepsZero(imageFile, rootfsDir, fs, size) ==
    LET fs1 == IF fs = "" THEN "ext4" ELSE fs
    IN  IF fs1 \notin {"btrfs", "ext4"}
        THEN [vm |-> NoVM, res |-> "err", msg |-> "Unsupported fs"]
        ELSE [vm |-> [imageFile |-> imageFile, loopDevice |-> "",
                      rootFS |-> fs1, rootfsDir |-> rootfsDir, size |-> size],
              res |-> "ok", msg |-> ""]

newVM(imageFile, rootfsDir, fs, size) ==
    LET fs1   == IF fs = "" THEN "ext4" ELSE fs
        size1 == IF size = 0 THEN DefaultSize ELSE size
    IN  IF fs1 \notin {"btrfs", "ext4"}
        THEN [vm |-> NoVM, res |-> "err", msg |-> "Unsupported fs"]
        ELSE [vm |-> [imageFile |-> imageFile, loopDevice |-> "",
                      rootFS |-> fs1, rootfsDir |-> rootfsDir, size |-> size1],
              res |-> "ok", msg |-> ""]

getLoopDev(vv) == vv.loopDevice

\* getRootfsDevFile without its check of the recorded path.
getRootfsDevFileAlways(vv) == vv.loopDevice \o "p2"

getRootfsDevFile(vv) ==
    IF vv.loopDevice = "" THEN "" ELSE vv.loopDevice \o "p2"

getUEFIDevFile(vv) ==
    IF vv.loopDevice = "" THEN "" ELSE vv.loopDevice \o "p1"

createEmptyDiskImage(vv, h, e) ==
    LET c1 == Cmd("os.Create", <<vv.imageFile>>)
        r1 == RunCommand(h, 1, c1, e)
        c2 == Cmd("Chmod", <<"0600">>)
        r2 == RunCommand(r1.h, 2, c2, e)
        c3 == Sys("Truncate", <<vv.imageFile>>, vv.size)
        r3 == RunCommand(r2.h, 3, c3, e)
    IN  IF ~r1.ok THEN Err(vv, r1.h, <<Ran(c1, r1)>>, "Failed to open")
        ELSE IF ~r2.ok
        THEN Err(vv, r2.h, <<Ran(c1, r1), Ran(c2, r2)>>, "Failed to chmod")
        ELSE Returned(vv, r3, <<Ran(c1, r1), Ran(c2, r2), Ran(c3, r3)>>,
                      "Failed to create sparse file")

\* The argument lists createPartitions hands to sgdisk, in order.
PartitionArgs == << <<"--zap-all">>,
                    <<"--new=1::+100M", "-t 1:EF00">>,
                    <<"--new=2::", "-t 2:8300">> >>

\* The loop of createPartitions from its n-th command on.
RECURSIVE createPartitionsFrom(_, _, _, _, _)
createPartitionsFrom(vv, h, n, cmds, e) ==
    IF n > Len(PartitionArgs) THEN Ok(vv, h, cmds, "")
    ELSE LET c == Cmd("sgdisk", <<vv.imageFile>> \o PartitionArgs[n])
             r == RunCommand(h, n, c, e)
         IN  IF ~r.ok
             THEN Err(vv, r.h, Append(cmds, Ran(c, r)), "Failed to create partitions")
             ELSE createPartitionsFrom(vv, r.h, n + 1, Append(cmds, Ran(c, r)), e)

\* createPartitions that goes on after a command failed and reports the
\* failure at the end.
RECURSIVE createPartitionsAll(_, _, _, _, _, _)
createPartitionsAll(vv, h, n, cmds, bad, e) ==
    IF n > Len(PartitionArgs)
    THEN IF bad THEN Err(vv, h, cmds, "Failed to create partitions")
         ELSE Ok(vv, h, cmds, "")
    ELSE LET c == Cmd("sgdisk", <<vv.imageFile>> \o PartitionArgs[n])
             r == RunCommand(h, n, c, e)
         IN  createPartitionsAll(vv, r.h, n + 1, Append(cmds, Ran(c, r)),
                                 bad \/ ~r.ok, e)

createPartitionsKeepsGoing(vv, h, e) == createPartitionsAll(vv, h, 1, <<>>, FALSE, e)

\* createPartitions that does not erase the table first.
createPartitionsNoZap(vv, h, e) == createPartitionsFrom(vv, h, 2, <<>>, e)

createPartitions(vv, h, e) == createPartitionsFrom(vv, h, 1, <<>>, e)

\* s[i] with Go's indices, which start at 0.
At(s, i) == s[i + 1]

\* makeNode that does not look whether the device file exists.
makeNodeUnchecked(vv, h, deviceNumbers, idx, path, n, cmds, e) ==
    IF idx >= Len(deviceNumbers)
    THEN Panic(vv, h, cmds, "index out of range")
    ELSE LET fields == Split(At(deviceNumbers, idx), ":")
             major  == Atoi(At(fields, 0))
         IN  IF ~major.ok THEN Err(vv, h, cmds, "Failed to parse")
             ELSE IF 1 >= Len(fields)
             THEN Panic(vv, h, cmds, "index out of range")
             ELSE LET minor == Atoi(At(fields, 1)) IN
                  IF ~minor.ok THEN Err(vv, h, cmds, "Failed to parse")
                  ELSE LET dev == Mkdev(major.val, minor.val)
                           c   == Sys("mknod", <<path>>, dev)
                           r   == RunCommand(h, n, c, e)
                       IN  Returned(vv, r, Append(cmds, Ran(c, r)),
                                    "Failed to create block device")

\* One of the two blocks of mountImage that make a partition's device file
\* when it is missing: the line deviceNumbers[idx] is split at ":", both
\* fields are parsed, and the node is made as command n.  Indexing past the
\* end of a slice aborts the process.
makeNode(vv, h, deviceNumbers, idx, path, n, cmds, e) ==
    IF PathExists(h, path) THEN Ok(vv, h, cmds, "")
    ELSE IF idx >= Len(deviceNumbers)
    THEN Panic(vv, h, cmds, "index out of range")
    ELSE LET fields == Split(At(deviceNumbers, idx), ":")
             major  == Atoi(At(fields, 0))
         IN  IF ~major.ok THEN Err(vv, h, cmds, "Failed to parse")
             ELSE IF 1 >= Len(fields)
             THEN Panic(vv, h, cmds, "index out of range")
             ELSE LET minor == Atoi(At(fields, 1)) IN
                  IF ~minor.ok THEN Err(vv, h, cmds, "Failed to parse")
                  ELSE LET dev == Mkdev(major.val, minor.val)
                           c   == Sys("mknod", <<path>>, dev)
                           r   == RunCommand(h, n, c, e)
                       IN  Returned(vv, r, Append(cmds, Ran(c, r)),
                                    "Failed to create block device")

\* mountImage once the loop device is bound: the query and the two nodes.
ensurePartitions(vv, h, cmds, e) ==
    LET c2 == Cmd("lsblk", <<"--raw", "--output", "MAJ:MIN", "--noheadings",
                             vv.loopDevice>>)
        r2 == RunCommand(h, 2, c2, e)
    IN  IF ~r2.ok
        THEN Err(vv, r2.h, Append(cmds, Ran(c2, r2)), "Failed to list block devices")
        ELSE LET deviceNumbers == Split(r2.out, "\n")
                 uefi == makeNode(vv, r2.h, deviceNumbers, 1, getUEFIDevFile(vv), 3,
                                  Append(cmds, Ran(c2, r2)), e)
             IN  IF uefi.res # "ok" THEN uefi
                 ELSE makeNode(vv, uefi.h, deviceNumbers, 2, getRootfsDevFile(vv), 4,
                               uefi.cmds, e)

\* mountImage without its check of the recorded path.
mountImageAlways(vv, h, e) ==
    LET c1 == Cmd("losetup", <<"-P", "-f", "--show", vv.imageFile>>)
        r1 == RunCommand(h, 1, c1, e)
    IN  IF ~r1.ok
        THEN Err(vv, r1.h, <<Ran(c1, r1)>>, "Failed to setup loop device")
        ELSE ensurePartitions([vv EXCEPT !.loopDevice = TrimSpace(r1.out)],
                              r1.h, <<Ran(c1, r1)>>, e)

\* mountImage that goes on when losetup failed.
mountImageIgnoresBindError(vv, h, e) ==
    IF vv.loopDevice # "" THEN Ok(vv, h, <<>>, "")
    ELSE LET c1 == Cmd("losetup", <<"-P", "-f", "--show", vv.imageFile>>)
             r1 == RunCommand(h, 1, c1, e)
         IN  ensurePartitions([vv EXCEPT !.loopDevice = TrimSpace(r1.out)],
                              r1.h, <<Ran(c1, r1)>>, e)

\* mountImage that records what losetup printed as it is.
mountImageUntrimmed(vv, h, e) ==
    IF vv.loopDevice # "" THEN Ok(vv, h, <<>>, "")
    ELSE LET c1 == Cmd("losetup", <<"-P", "-f", "--show", vv.imageFile>>)
             r1 == RunCommand(h, 1, c1, e)
         IN  IF ~r1.ok
             THEN Err(vv, r1.h, <<Ran(c1, r1)>>, "Failed to setup loop device")
             ELSE ensurePartitions([vv EXCEPT !.loopDevice = Join(r1.out)],
                                   r1.h, <<Ran(c1, r1)>>, e)

\* mountImage that records the path only once the device files are there.
mountImageRecordsLate(vv, h, e) ==
    IF vv.loopDevice # "" THEN Ok(vv, h, <<>>, "")
    ELSE LET r == mountImageAlways(vv, h, e)
         IN  IF r.res = "ok" THEN r ELSE [r EXCEPT !.v = vv]

mountImage(vv, h, e) ==
    IF vv.loopDevice # "" THEN Ok(vv, h, <<>>, "")
    ELSE LET c1 == Cmd("losetup", <<"-P", "-f", "--show", vv.imageFile>>)
             r1 == RunCommand(h, 1, c1, e)
         IN  IF ~r1.ok
             THEN Err(vv, r1.h, <<Ran(c1, r1)>>, "Failed to setup loop device")
             ELSE ensurePartitions([vv EXCEPT !.loopDevice = TrimSpace(r1.out)],
                                   r1.h, <<Ran(c1, r1)>>, e)

\* removePartitions that removes <loop>p1 only.
removePartitionsUEFIOnly(vv, h, cmds, e) ==
    LET c2 == Cmd("os.Remove", <<getUEFIDevFile(vv)>>)
        r2 == IF PathExists(h, getUEFIDevFile(vv)) THEN RunCommand(h, 2, c2, e)
              ELSE Done(h, <<>>)
        l2 == IF PathExists(h, getUEFIDevFile(vv)) THEN Append(cmds, Ran(c2, r2))
              ELSE cmds
    IN  IF ~r2.ok THEN Err(vv, r2.h, l2, "Failed to remove file")
        ELSE Ok([vv EXCEPT !.loopDevice = ""], r2.h, l2, "")

\* removePartitions that leaves the recorded path as it is.
removePartitionsKeepsPath(vv, h, cmds, e) ==
    LET c2 == Cmd("os.Remove", <<getUEFIDevFile(vv)>>)
        r2 == IF PathExists(h, getUEFIDevFile(vv)) THEN RunCommand(h, 2, c2, e)
              ELSE Done(h, <<>>)
        l2 == IF PathExists(h, getUEFIDevFile(vv)) THEN Append(cmds, Ran(c2, r2))
              ELSE cmds
        c3 == Cmd("os.Remove", <<getRootfsDevFile(vv)>>)
        r3 == IF PathExists(r2.h, getRootfsDevFile(vv)) THEN RunCommand(r2.h, 3, c3, e)
              ELSE Done(r2.h, <<>>)
        l3 == IF PathExists(r2.h, getRootfsDevFile(vv)) THEN Append(l2, Ran(c3, r3))
              ELSE l2
    IN  IF ~r2.ok THEN Err(vv, r2.h, l2, "Failed to remove file")
        ELSE IF ~r3.ok THEN Err(vv, r3.h, l3, "Failed to remove file")
        ELSE Ok(vv, r3.h, l3, "")

\* removePartitions that removes <loop>p2 before <loop>p1.
removePartitionsRootfsFirst(vv, h, cmds, e) ==
    LET c2 == Cmd("os.Remove", <<getRootfsDevFile(vv)>>)
        r2 == IF PathExists(h, getRootfsDevFile(vv)) THEN RunCommand(h, 2, c2, e)
              ELSE Done(h, <<>>)
        l2 == IF PathExists(h, getRootfsDevFile(vv)) THEN Append(cmds, Ran(c2, r2))
              ELSE cmds
        c3 == Cmd("os.Remove", <<getUEFIDevFile(vv)>>)
        r3 == IF PathExists(r2.h, getUEFIDevFile(vv)) THEN RunCommand(r2.h, 3, c3, e)
              ELSE Done(r2.h, <<>>)
        l3 == IF PathExists(r2.h, getUEFIDevFile(vv)) THEN Append(l2, Ran(c3, r3))
              ELSE l2
    IN  IF ~r2.ok THEN Err(vv, r2.h, l2, "Failed to remove file")
        ELSE IF ~r3.ok THEN Err(vv, r3.h, l3, "Failed to remove file")
        ELSE Ok([vv EXCEPT !.loopDevice = ""], r3.h, l3, "")

\* umountImage after the loop device is unbound: the two removals, then the
\* recorded path is cleared.
removePartitions(vv, h, cmds, e) ==
    LET c2 == Cmd("os.Remove", <<getUEFIDevFile(vv)>>)
        r2 == IF PathExists(h, getUEFIDevFile(vv)) THEN RunCommand(h, 2, c2, e)
              ELSE Done(h, <<>>)
        l2 == IF PathExists(h, getUEFIDevFile(vv)) THEN Append(cmds, Ran(c2, r2))
              ELSE cmds
        c3 == Cmd("os.Remove", <<getRootfsDevFile(vv)>>)
        r3 == IF PathExists(r2.h, getRootfsDevFile(vv)) THEN RunCommand(r2.h, 3, c3, e)
              ELSE Done(r2.h, <<>>)
        l3 == IF PathExists(r2.h, getRootfsDevFile(vv)) THEN Append(l2, Ran(c3, r3))
              ELSE l2
    IN  IF ~r2.ok THEN Err(vv, r2.h, l2, "Failed to remove file")
        ELSE IF ~r3.ok THEN Err(vv, r3.h, l3, "Failed to remove file")
        ELSE Ok([vv EXCEPT !.loopDevice = ""], r3.h, l3, "")

\* umountImage that clears the recorded path also when the detach fails.
umountImageForgets(vv, h, e) ==
    IF vv.loopDevice = "" \/ ~PathExists(h, vv.loopDevice) THEN Ok(vv, h, <<>>, "")
    ELSE LET c1 == Cmd("losetup", <<"-d", vv.loopDevice>>)
             r1 == RunCommand(h, 1, c1, e)
         IN  IF ~r1.ok
             THEN Err([vv EXCEPT !.loopDevice = ""], r1.h, <<Ran(c1, r1)>>,
                      "Failed to detach loop device")
             ELSE removePartitions(vv, r1.h, <<Ran(c1, r1)>>, e)

\* umountImage that does not look whether the recorded path exists.
umountImageNoLook(vv, h, e) ==
    IF vv.loopDevice = "" THEN Ok(vv, h, <<>>, "")
    ELSE LET c1 == Cmd("losetup", <<"-d", vv.loopDevice>>)
             r1 == RunCommand(h, 1, c1, e)
         IN  IF ~r1.ok
             THEN Err(vv, r1.h, <<Ran(c1, r1)>>, "Failed to detach loop device")
             ELSE removePartitions(vv, r1.h, <<Ran(c1, r1)>>, e)

umountImage(vv, h, e) ==
    IF vv.loopDevice = "" \/ ~PathExists(h, vv.loopDevice) THEN Ok(vv, h, <<>>, "")
    ELSE LET c1 == Cmd("losetup", <<"-d", vv.loopDevice>>)
             r1 == RunCommand(h, 1, c1, e)
         IN  IF ~r1.ok
             THEN Err(vv, r1.h, <<Ran(c1, r1)>>, "Failed to detach loop device")
             ELSE removePartitions(vv, r1.h, <<Ran(c1, r1)>>, e)

NotMounted(vv, h) == Err(vv, h, <<>>, "Disk image not mounted")

\* The btrfs branch of createRootFS.  The umount is deferred once the mount
\* has succeeded: it runs after the subvolume command, whatever that gave,
\* and what it returns is dropped.
createRootFSBtrfs(vv, h, e) ==
    LET c1 == Cmd("mkfs.btrfs", <<"-f", "-L", "rootfs", getRootfsDevFile(vv)>>)
        r1 == RunCommand(h, 1, c1, e)
        c2 == Cmd("mount", <<getRootfsDevFile(vv), vv.rootfsDir>>)
        r2 == RunCommand(r1.h, 2, c2, e)
        c3 == Cmd("btrfs", <<"subvolume", "create", vv.rootfsDir \o "/@">>)
        r3 == RunCommand(r2.h, 3, c3, e)
        c4 == Cmd("umount", <<vv.rootfsDir>>)
        r4 == RunCommand(r3.h, 4, c4, e)
    IN  IF ~r1.ok
        THEN Err(vv, r1.h, <<Ran(c1, r1)>>, "Failed to create btrfs filesystem")
        ELSE IF ~r2.ok
        THEN Err(vv, r2.h, <<Ran(c1, r1), Ran(c2, r2)>>, "Failed to mount")
        ELSE Returned(vv, [r3 EXCEPT !.h = r4.h],
                      <<Ran(c1, r1), Ran(c2, r2), Ran(c3, r3), Ran(c4, r4)>>, "")

createRootFS(vv, h, e) ==
    IF vv.loopDevice = "" THEN NotMounted(vv, h)
    ELSE CASE vv.rootFS = "btrfs" -> createRootFSBtrfs(vv, h, e)
           [] vv.rootFS = "ext4" ->
                LET c == Cmd("mkfs.ext4", <<"-F", "-b", "4096", "-i 8192", "-m", "0",
                                            "-L", "rootfs", "-E", "resize=536870912",
                                            getRootfsDevFile(vv)>>)
                    r == RunCommand(h, 1, c, e)
                IN  Returned(vv, r, <<Ran(c, r)>>, "")
           [] OTHER -> Ok(vv, h, <<>>, "")

\* createUEFIFS without its check of the recorded path.
createUEFIFSUnchecked(vv, h, e) ==
    LET c == Cmd("mkfs.vfat", <<"-F", "32", "-n", "UEFI", getUEFIDevFile(vv)>>)
        r == RunCommand(h, 1, c, e)
    IN  Returned(vv, r, <<Ran(c, r)>>, "")

createUEFIFS(vv, h, e) ==
    IF vv.loopDevice = "" THEN NotMounted(vv, h)
    ELSE LET c == Cmd("mkfs.vfat", <<"-F", "32", "-n", "UEFI", getUEFIDevFile(vv)>>)
             r == RunCommand(h, 1, c, e)
         IN  Returned(vv, r, <<Ran(c, r)>>, "")

\* The two UUID lookups differ in the device file they ask about.
getPartitionUUID(vv, h, path, e) ==
    IF vv.loopDevice = "" THEN NotMounted(vv, h)
    ELSE LET c == Cmd("blkid", <<"-s", "PARTUUID", "-o", "value", path>>)
             r == RunCommand(h, 1, c, e)
         IN  IF ~r.ok THEN Err(vv, r.h, <<Ran(c, r)>>, "")
             ELSE Ok(vv, r.h, <<Ran(c, r)>>, TrimSpace(r.out))

getRootfsPartitionUUID(vv, h, e) == getPartitionUUID(vv, h, getRootfsDevFile(vv), e)

getUEFIPartitionUUID(vv, h, e) == getPartitionUUID(vv, h, getUEFIDevFile(vv), e)

mountRootPartition(vv, h, e) ==
    IF vv.loopDevice = "" THEN NotMounted(vv, h)
    ELSE CASE vv.rootFS = "btrfs" ->
                LET c == Cmd("mount", <<getRootfsDevFile(vv), vv.rootfsDir, "-o",
                                        "defaults,subvol=/@">>)
                    r == RunCommand(h, 1, c, e)
                IN  Returned(vv, r, <<Ran(c, r)>>, "")
           [] vv.rootFS = "ext4" ->
                LET c == Cmd("mount", <<getRootfsDevFile(vv), vv.rootfsDir>>)
                    r == RunCommand(h, 1, c, e)
                IN  Returned(vv, r, <<Ran(c, r)>>, "")
           [] OTHER -> Ok(vv, h, <<>>, "")

mountUEFIPartition(vv, h, e) ==
    IF vv.loopDevice = "" THEN NotMounted(vv, h)
    ELSE LET mountpoint == vv.rootfsDir \o "/boot/efi"
             c1 == Cmd("os.MkdirAll", <<mountpoint, "0755">>)
             r1 == RunCommand(h, 1, c1, e)
             c2 == Cmd("mount", <<getUEFIDevFile(vv), mountpoint>>)
             r2 == RunCommand(r1.h, 2, c2, e)
         IN  IF ~r1.ok
             THEN Err(vv, r1.h, <<Ran(c1, r1)>>, "Failed to create directory")
             ELSE Returned(vv, r2, <<Ran(c1, r1), Ran(c2, r2)>>, "")

\* The caller's teardown of a mount point (not a method of vm): unmount it
\* if something is mounted there, and succeed if nothing is.
unmount(vv, h, dir, e) ==
    IF TopMount(h, dir) = 0 THEN Ok(vv, h, <<>>, "")
    ELSE LET c == Cmd("umount", <<dir>>)
             r == RunCommand(h, 1, c, e)
         IN  Returned(vv, r, <<Ran(c, r)>>, "Failed to unmount")

-----------------------------------------------------------------------------
(* The state machine.  The caller (main) calls one method at a time: last  *)
(* is the call that has just returned (the method, what it returned, the   *)
(* host commands it ran, the builder and host it was called in); the       *)
(* caller then takes note of the result (Continue) and is ready for the    *)
(* next call.  prev is the call made right before last when that was       *)
(* mountImage or umountImage (the two methods whose repetition matters),   *)
(* with what it returned.                                                  *)
(*                                                                         *)
(* rt counts the steps of the round trip                                   *)
(*   createEmptyDiskImage, createPartitions, mountImage, createRootFS,     *)
(*   createUEFIFS, mountRootPartition, mountUEFIPartition, unmount ESP,    *)
(*   unmount rootfs, umountImage                                           *)
(* made so far on a fresh builder, in this order, with every host command  *)
(* succeeding and nothing else in between (-1: not such a run).            *)

\* The values main may pass to newVM.
FsInputs == {"", "ext4", "btrfs", "xfs"}
SizeInputs == {0}

RoundTrip == <<"createEmptyDiskImage", "createPartitions", "mountImage",
               "createRootFS", "createUEFIFS", "mountRootPartition",
               "mountUEFIPartition", "unmountUEFI", "unmountRootfs",
               "umountImage">>

\* What the host decides by itself during a call: which of the call's
\* commands fail (of n), which partition device files udev provides, and
\* what the numbering query prints.  A method stops at its first command
\* that fails, so one failing command (or none) is every case there is;
\* createRootFS alone runs a command after a failed one (its deferred
\* umount), which "more" is for.
HostChoices(n, more, udevs, shapes) ==
    [fail : {{}} \cup {{i} : i \in 1..n} \cup more, udev : udevs, shape : shapes]

Quiet(n) == HostChoices(n, {}, {{}}, {"lsblk"})

\* No call: the caller is between two calls.
\* The arguments of a call that takes some (newVM's kind and size).
NoArgs == [fs |-> "", size |-> 0]

NoCall(vv, h) == [op |-> "", res |-> "", msg |-> "", cmds |-> <<>>, out |-> "",
                  args |-> NoArgs, pre |-> [v |-> vv, host |-> h]]

NoPrev == [op |-> "", res |-> ""]

Built == v # NoVM

Ready == last.op = ""

AllRan(cmds) == \A i \in 1..Len(cmds) : cmds[i].ok

Forced(cmds) == {i \in 1..Len(cmds) : cmds[i].forced}

\* A detach of a loop device something is still mounted from.
LazyDetach(h, cmds) ==
    \E i \in 1..Len(cmds) :
        /\ cmds[i].tool = "losetup" /\ cmds[i].args[1] = "-d" /\ cmds[i].ok
        /\ LoopMounted(h, cmds[i].args[2])

\* The irregular events of a call in host h that gave r under the choices e.
Faults(h, r, e) ==
    Cardinality(Forced(r.cmds))
    + (IF e.shape # "lsblk" THEN 1 ELSE 0)
    + (IF LazyDetach(h, r.cmds) THEN 1 ELSE 0)

\* e holds no choice the call never came to: every command it fails was
\* run, and a malformed query output was printed.  (A choice the call did
\* not come to gives the same step as e without it.)
Canonical(r, e) ==
    /\ Cardinality(e.fail) = Cardinality(Forced(r.cmds))
    /\ e.shape # "lsblk" =>
          \E i \in 1..Len(r.cmds) : r.cmds[i].tool = "lsblk" /\ r.cmds[i].ok

\* The builder's method op was called and gave r.
Called(op, r, e) ==
    /\ Canonical(r, e)
    /\ faults + Faults(host, r, e) <= MaxFaults
    /\ faults' = faults + Faults(host, r, e)
    /\ v' = r.v
    /\ host' = r.h
    /\ last' = [op |-> op, res |-> r.res, msg |-> r.msg, cmds |-> r.cmds,
                out |-> r.out, args |-> NoArgs, pre |-> [v |-> v, host |-> host]]
    /\ rt' = IF /\ rt >= 0
                /\ rt < Len(RoundTrip)
                /\ op = RoundTrip[rt + 1]
                /\ r.res = "ok"
                /\ AllRan(r.cmds)
             THEN rt + 1
             ELSE 0 - 1
    /\ UNCHANGED prev

InitHost ==
    [image  |-> NoImage,
     loops  |-> [d \in LoopPaths |-> FreeLoop],
     nodes  |-> [d \in LoopPaths |->
                   [dev |-> Mkdev(LoopDevNo(LoopIndex(d))[1],
                                  LoopDevNo(LoopIndex(d))[2]),
                    by |-> "kernel"]],
     mounts |-> <<>>]

Init ==
    /\ v = NoVM
    /\ host = InitHost
    /\ last = NoCall(NoVM, InitHost)
    /\ prev = NoPrev
    /\ rt = 0 - 1
    /\ faults = 0

\* The caller constructs the builder, with a size among sizes.
Construct(sizes) ==
    \E fs \in FsInputs, size \in sizes :
         LET r == newVM(ImagePath, RootfsPath, fs, size) IN
         /\ v' = r.vm
         /\ last' = [op |-> "newVM", res |-> r.res, msg |-> r.msg, cmds |-> <<>>,
                     out |-> "", args |-> [fs |-> fs, size |-> size],
                     pre |-> [v |-> v, host |-> host]]
         /\ rt' = IF r.res = "ok" THEN 0 ELSE 0 - 1
         /\ UNCHANGED <<host, prev, faults>>

NewVM ==
    /\ Ready /\ ~Built
    /\ Construct(SizeInputs)

\* newVM with any size up to MaxSize (MiB).
NewVMSized ==
    /\ Ready /\ ~Built
    /\ Construct(0..MaxSize)

CreateEmptyDiskImage ==
    /\ Ready /\ Built
    /\ \E e \in Quiet(3) :
         Called("createEmptyDiskImage", createEmptyDiskImage(v, host, e), e)

CreatePartitions ==
    /\ Ready /\ Built
    /\ \E e \in Quiet(3) : Called("createPartitions", createPartitions(v, host, e), e)

MountImage ==
    /\ Ready /\ Built
    /\ \E e \in HostChoices(4, {}, SUBSET {1, 2}, LsblkShapes) :
         Called("mountImage", mountImage(v, host, e), e)

UmountImage ==
    /\ Ready /\ Built
    /\ \E e \in Quiet(3) : Called("umountImage", umountImage(v, host, e), e)

CreateRootFS ==
    /\ Ready /\ Built
    /\ \E e \in HostChoices(4, {{3, 4}}, {{}}, {"lsblk"}) :
         Called("createRootFS", createRootFS(v, host, e), e)

CreateUEFIFS ==
    /\ Ready /\ Built
    /\ \E e \in Quiet(1) : Called("createUEFIFS", createUEFIFS(v, host, e), e)

GetRootfsPartitionUUID ==
    /\ Ready /\ Built
    /\ \E e \in Quiet(1) :
         Called("getRootfsPartitionUUID", getRootfsPartitionUUID(v, host, e), e)

GetUEFIPartitionUUID ==
    /\ Ready /\ Built
    /\ \E e \in Quiet(1) :
         Called("getUEFIPartitionUUID", getUEFIPartitionUUID(v, host, e), e)

MountRootPartition ==
    /\ Ready /\ Built
    /\ \E e \in Quiet(1) : Called("mountRootPartition", mountRootPartition(v, host, e), e)

MountUEFIPartition ==
    /\ Ready /\ Built
    /\ \E e \in Quiet(2) : Called("mountUEFIPartition", mountUEFIPartition(v, host, e), e)

UnmountUEFI ==
    /\ Ready /\ Built
    /\ \E e \in Quiet(1) :
         Called("unmountUEFI", unmount(v, host, v.rootfsDir \o "/boot/efi", e), e)

UnmountRootfs ==
    /\ Ready /\ Built
    /\ \E e \in Quiet(1) : Called("unmountRootfs", unmount(v, host, v.rootfsDir, e), e)

\* The caller has the result of the last call and goes on; after a panic
\* there is no caller left.
Continue ==
    /\ ~Ready /\ last.res # "panic"
    /\ last' = NoCall(v, host)
    /\ prev' = IF last.op \in {"mountImage", "umountImage"}
               THEN [op |-> last.op, res |-> last.res]
               ELSE NoPrev
    /\ UNCHANGED <<v, host, rt, faults>>

\* Outside the builder: the recorded loop device's file goes away (the case
\* umountImage looks for before it detaches).
LoopDeviceFileGone ==
    /\ Ready /\ Built
    /\ v.loopDevice # "" /\ PathExists(host, v.loopDevice)
    /\ faults < MaxFaults
    /\ faults' = faults + 1
    /\ host' = [host EXCEPT !.nodes = Without(host.nodes, v.loopDevice)]
    /\ last' = NoCall(v, host')
    /\ prev' = NoPrev
    /\ rt' = 0 - 1
    /\ UNCHANGED v

\* The calls on the builder.
BuilderNext ==
    \/ NewVM
    \/ CreateEmptyDiskImage
    \/ CreatePartitions
    \/ MountImage
    \/ UmountImage
    \/ CreateRootFS
    \/ CreateUEFIFS
    \/ GetRootfsPartitionUUID
    \/ GetUEFIPartitionUUID
    \/ MountRootPartition
    \/ MountUEFIPartition
    \/ UnmountUEFI
    \/ UnmountRootfs
    \/ Continue

Next == BuilderNext \/ LoopDeviceFileGone

Spec == Init /\ [][Next]_vars

\* mountImage and umountImage alone, on an image that may have been created
\* and partitioned.
LoopNext ==
    \/ NewVM
    \/ CreateEmptyDiskImage
    \/ CreatePartitions
    \/ MountImage
    \/ UmountImage
    \/ Continue
    \/ LoopDeviceFileGone

SpecLoop == Init /\ [][LoopNext]_vars

\* mountImage and umountImage with nothing happening outside the builder.
AloneNext ==
    \/ NewVM
    \/ CreateEmptyDiskImage
    \/ CreatePartitions
    \/ MountImage
    \/ UmountImage
    \/ Continue

SpecAlone == Init /\ [][AloneNext]_vars

\* The construction with sizes of every kind, and the two steps that depend
\* on the size.
SizedNext ==
    \/ NewVMSized
    \/ CreateEmptyDiskImage
    \/ CreatePartitions
    \/ Continue

SpecSized == Init /\ [][SizedNext]_vars

-----------------------------------------------------------------------------
(* The claims.                                                             *)

\* The loop devices bound to the image file.
Bound(h) == {d \in LoopPaths : h.loops[d].backing # ""}

\* The partition device files <loop>p1, <loop>p2 there are.
PartFiles(h) ==
    {q \in DOMAIN h.nodes : \E d \in LoopPaths, k \in {1, 2} : q = PartPath(d, k)}

\* The last call changed neither the builder nor the host.
NoEffect == v = last.pre.v /\ host = last.pre.host

\* The last call returned the 'Disk image not mounted' error.
NotMountedError ==
    last.res = "err" /\ last.msg = "Disk image not mounted" /\ last.cmds = <<>>

\* C1: after the round trip createEmptyDiskImage .. umountImage on a fresh
\* builder, with every host command succeeding, no loop device is bound, no
\* <loop>p1 or <loop>p2 is left and the recorded path is empty.
C1_RoundTripLeavesNothing ==
    rt = Len(RoundTrip) =>
        /\ Bound(host) = {}
        /\ PartFiles(host) = {}
        /\ v.loopDevice = ""

\* The round trip has been made, and its umountImage had a bound device and
\* partition device files to deal with.
C1_Witness ==
    /\ rt = Len(RoundTrip)
    /\ last.op = "umountImage"
    /\ Bound(last.pre.host) # {}
    /\ PartFiles(last.pre.host) # {}

\* C2: a mountImage called right after a mountImage that returned success
\* (or that recorded a path) returns success, runs no host command and leaves
\* the recorded path, the loop devices and the device files as they were.
C2_SecondMountImageIsNoOp ==
    (/\ last.op = "mountImage"
     /\ prev.op = "mountImage"
     /\ (prev.res = "ok" \/ last.pre.v.loopDevice # ""))
    => (last.res = "ok" /\ last.cmds = <<>> /\ NoEffect)

C2_Witness ==
    /\ last.op = "mountImage" /\ last.res = "ok"
    /\ prev = [op |-> "mountImage", res |-> "ok"]
    /\ v.loopDevice # ""

\* The methods that check the recorded path first.
Guarded == {"createRootFS", "createUEFIFS", "mountRootPartition",
            "mountUEFIPartition", "getRootfsPartitionUUID",
            "getUEFIPartitionUUID"}

\* C3, as amended: while no loop device path is recorded, each of the six
\* guarded methods fails with 'Disk image not mounted', runs no host command
\* and changes nothing.
C3_NotMountedWhileNoPath ==
    (last.op \in Guarded /\ last.pre.v.loopDevice = "")
    => (NotMountedError /\ NoEffect)

\* A guarded method was refused after a mountImage that failed at the bind.
C3_Witness ==
    /\ last.op \in Guarded
    /\ prev = [op |-> "mountImage", res |-> "err"]
    /\ last.pre.v.loopDevice = ""
    /\ NotMountedError

\* C3 as claimed: right after a mountImage that returned an error, the
\* guarded methods fail with 'Disk image not mounted'.
C3_NotMountedAfterFailedMountImage ==
    (last.op \in Guarded /\ prev = [op |-> "mountImage", res |-> "err"])
    => NotMountedError

\* C4 as claimed: a umountImage that fails leaves the recorded path as it
\* was, and a umountImage called right after it in which no host tool fails
\* by itself completes the detach: success, no loop device bound, no
\* partition device file left, the recorded path cleared.
C4_RetryCompletesDetach ==
    /\ (last.op = "umountImage" /\ last.res = "err")
       => v.loopDevice = last.pre.v.loopDevice
    /\ (/\ last.op = "umountImage"
        /\ prev = [op |-> "umountImage", res |-> "err"]
        /\ Forced(last.cmds) = {})
       => (/\ last.res = "ok"
           /\ Bound(host) = {}
           /\ PartFiles(host) = {}
           /\ v.loopDevice = "")

\* C5: umountImage called with no recorded path, or with a recorded path
\* that no longer exists on the host, returns success, runs no host command
\* and changes nothing.
C5_UmountImageNoOp ==
    (/\ last.op = "umountImage"
     /\ \/ last.pre.v.loopDevice = ""
        \/ ~PathExists(last.pre.host, last.pre.v.loopDevice))
    => (last.res = "ok" /\ last.cmds = <<>> /\ NoEffect)

\* umountImage was called with a recorded path that is gone from the host.
C5_Witness ==
    /\ last.op = "umountImage"
    /\ last.pre.v.loopDevice # ""
    /\ ~PathExists(last.pre.host, last.pre.v.loopDevice)
    /\ last.res = "ok"

\* C6 as claimed: with rootFS btrfs, createRootFS leaves mounted nothing
\* that was not mounted when it was called, whatever path it returns by, and
\* mountRootPartition mounts the partition with the subvolume @ selected.
C6_BtrfsRootfsNotLeftMounted ==
    /\ (last.op = "createRootFS" /\ last.pre.v.rootFS = "btrfs")
       => host.mounts = last.pre.host.mounts
    /\ (last.op = "mountRootPartition" /\ last.pre.v.rootFS = "btrfs")
       => \A i \in 1..Len(last.cmds) :
             last.cmds[i].tool = "mount"
             => last.cmds[i].args = <<getRootfsDevFile(last.pre.v),
                                      last.pre.v.rootfsDir, "-o",
                                      "defaults,subvol=/@">>

\* The steps of the build.
Steps == {"createEmptyDiskImage", "createPartitions", "mountImage",
          "umountImage", "createRootFS", "createUEFIFS", "mountRootPartition",
          "mountUEFIPartition", "getRootfsPartitionUUID",
          "getUEFIPartitionUUID"}

\* The commands of the last call that failed.
FailedCmds == {i \in 1..Len(last.cmds) : ~last.cmds[i].ok}

C8_AtMostOneLoopBound == Cardinality(Bound(host)) <= 1

\* mountImage was called again after a mountImage or umountImage, and a loop
\* device is bound.
C8_Witness ==
    /\ last.op = "mountImage"
    /\ prev.op \in {"mountImage", "umountImage"}
    /\ Cardinality(Bound(host)) = 1

\* C9 as claimed: a step of which a host command failed returns an error.
C9_NoFailureSwallowed ==
    (last.op \in Steps /\ FailedCmds # {}) => last.res = "err"

\* C10 as claimed: mountImage returns, with success or with an error,
\* whatever the numbering query prints and whichever command fails.
C10_MountImageReturns ==
    last.op = "mountImage" => last.res \in {"ok", "err"}

\* C11: newVM gives a builder of size DefaultSize for size 0 and of the
\* given size otherwise, of kind ext4 for kind "" and of the given kind for
\* ext4 and btrfs; for any other kind it returns an error and no builder; it
\* runs no host command and leaves the host alone; every builder there is
\* has kind ext4 or btrfs and a size above 0.
C11_NewVMDefaults ==
    /\ last.op = "newVM" =>
          /\ last.cmds = <<>> /\ host = last.pre.host
          /\ IF last.args.fs \in {"", "ext4", "btrfs"}
             THEN /\ last.res = "ok"
                  /\ v = [imageFile |-> ImagePath, loopDevice |-> "",
                          rootFS |-> IF last.args.fs = "" THEN "ext4"
                                     ELSE last.args.fs,
                          rootfsDir |-> RootfsPath,
                          size |-> IF last.args.size = 0 THEN DefaultSize
                                   ELSE last.args.size]
             ELSE last.res = "err" /\ v = NoVM
    /\ Built => v.rootFS \in {"ext4", "btrfs"} /\ v.size > 0

\* newVM was called with no kind and size 0 and gave the defaults.
C11_Witness ==
    /\ last.op = "newVM"
    /\ last.args = [fs |-> "", size |-> 0]
    /\ v.rootFS = "ext4" /\ v.size = DefaultSize

\* C12: in every state, getUEFIDevFile and getRootfsDevFile are both ""
\* when the recorded path is "", and are the recorded path followed by p1
\* and by p2 otherwise.
C12_DevFilesFollowLoopDevice ==
    Built =>
        IF v.loopDevice = ""
        THEN getUEFIDevFile(v) = "" /\ getRootfsDevFile(v) = ""
        ELSE /\ getUEFIDevFile(v) = v.loopDevice \o "p1"
             /\ getRootfsDevFile(v) = v.loopDevice \o "p2"
             /\ \E d \in LoopPaths : /\ v.loopDevice = d
                                     /\ getUEFIDevFile(v) = PartPath(d, 1)
                                     /\ getRootfsDevFile(v) = PartPath(d, 2)

\* A path is recorded and the two device files are named after it.
C12_Witness ==
    /\ Built
    /\ v.loopDevice = "/dev/loop0"
    /\ getUEFIDevFile(v) = "/dev/loop0p1"
    /\ getRootfsDevFile(v) = "/dev/loop0p2"

\* The mknod commands of the last call.
Mknods == {i \in 1..Len(last.cmds) : last.cmds[i].tool = "mknod"}

\* The device number of partition k of the loop device d.
PartDev(d, k) == Mkdev(PartDevNo(LoopIndex(d), k)[1], PartDevNo(LoopIndex(d), k)[2])

\* C13, as amended: mountImage makes a device file only for <loop>p1 and
\* <loop>p2, only where none exists (the host never has to refuse a mknod),
\* each with the numbers of its own partition; every device file there was
\* is left as it was; and after a mountImage that ran its commands and
\* returned success both <loop>p1 and <loop>p2 exist.
C13_ReconcileChecksExistence ==
    last.op = "mountImage" =>
        /\ \A q \in DOMAIN last.pre.host.nodes :
              q \in DOMAIN host.nodes /\ host.nodes[q] = last.pre.host.nodes[q]
        /\ \A i \in Mknods :
              LET c == last.cmds[i] IN
              /\ c.args[1] \notin DOMAIN last.pre.host.nodes
              /\ ~c.ok => c.forced
              /\ c.ok => host.nodes[c.args[1]] = [dev |-> c.num, by |-> "mknod"]
              /\ \E k \in {1, 2} : /\ c.args[1] = PartPath(v.loopDevice, k)
                                   /\ c.num = PartDev(v.loopDevice, k)
        /\ (last.res = "ok" /\ last.cmds # <<>>)
           => /\ PathExists(host, getUEFIDevFile(v))
              /\ PathExists(host, getRootfsDevFile(v))

\* mountImage succeeded having found one device file there and made the
\* other.
C13_Witness ==
    /\ last.op = "mountImage" /\ last.res = "ok"
    /\ Cardinality(Mknods) = 1
    /\ \E q \in {getUEFIDevFile(v), getRootfsDevFile(v)} :
          PathExists(host, q) /\ host.nodes[q].by = "kernel"

\* C13 as claimed: after a mountImage that returned success both <loop>p1
\* and <loop>p2 exist.
C13_BothExistAfterSuccess ==
    (last.op = "mountImage" /\ last.res = "ok")
    => /\ PathExists(host, getUEFIDevFile(v))
       /\ PathExists(host, getRootfsDevFile(v))

\* The place of a command of umountImage (called with the builder vv) in
\* the order unbind, remove <loop>p1, remove <loop>p2; 0 for any other.
DetachRank(vv, c) ==
    CASE c.tool = "losetup" /\ c.args = <<"-d", vv.loopDevice>>     -> 1
      [] c.tool = "os.Remove" /\ c.args = <<getUEFIDevFile(vv)>>    -> 2
      [] c.tool = "os.Remove" /\ c.args = <<getRootfsDevFile(vv)>>  -> 3
      [] OTHER                                                      -> 0

\* C14: a umountImage that acts runs the unbind first, then the removal of
\* <loop>p1, then that of <loop>p2, each removal only for a file that is
\* there, and stops at the first that fails; the recorded path is cleared
\* exactly when it returns success, with the unbind and the removals done
\* and neither file left; when the unbind fails no device file is removed.
C14_DetachOrder ==
    (last.op = "umountImage" /\ last.cmds # <<>>) =>
        LET vv == last.pre.v
            n  == Len(last.cmds)
        IN  /\ DetachRank(vv, last.cmds[1]) = 1
            /\ \A i \in 1..n : DetachRank(vv, last.cmds[i]) # 0
            /\ \A i, j \in 1..n :
                  i < j => DetachRank(vv, last.cmds[i]) < DetachRank(vv, last.cmds[j])
            /\ \A i \in 1..n : ~last.cmds[i].ok => /\ i = n
                                                   /\ (last.cmds[i].forced \/ i = 1)
            /\ v.loopDevice = "" <=> last.res = "ok"
            /\ v.loopDevice # "" => v = vv
            /\ last.res = "ok" =>
                  /\ AllRan(last.cmds)
                  /\ ~PathExists(host, getUEFIDevFile(vv))
                  /\ ~PathExists(host, getRootfsDevFile(vv))
            /\ ~last.cmds[1].ok => (n = 1 /\ host.nodes = last.pre.host.nodes)

\* umountImage unbound the device, removed both device files and cleared
\* the path.
C14_Witness ==
    /\ last.op = "umountImage" /\ last.res = "ok"
    /\ Len(last.cmds) = 3
    /\ last.pre.v.loopDevice # "" /\ v.loopDevice = ""

\* The last call bound a loop device.
BoundByLast ==
    \E i \in 1..Len(last.cmds) :
        /\ last.cmds[i].tool = "losetup" /\ last.cmds[i].args[1] = "-P"
        /\ last.cmds[i].ok

\* C15: a mountImage that returns an error after it bound a loop device has
\* recorded that device's path, and a umountImage called right after it, of
\* which every host command succeeds, returns success with the device
\* unbound, neither <loop>p1 nor <loop>p2 left and the recorded path cleared.
C15_FailedMountImageNotLeaked ==
    /\ (last.op = "mountImage" /\ last.res = "err" /\ BoundByLast)
       => /\ v.loopDevice \in Bound(host)
          /\ Bound(host) \ Bound(last.pre.host) = {v.loopDevice}
    /\ (/\ last.op = "umountImage"
        /\ prev = [op |-> "mountImage", res |-> "err"]
        /\ last.pre.v.loopDevice # ""
        /\ AllRan(last.cmds))
       => /\ last.res = "ok"
          /\ last.cmds # <<>>
          /\ last.pre.v.loopDevice \notin Bound(host)
          /\ ~PathExists(host, getUEFIDevFile(last.pre.v))
          /\ ~PathExists(host, getRootfsDevFile(last.pre.v))
          /\ v.loopDevice = ""

\* umountImage cleaned up after a mountImage that had made <loop>p1 and then
\* failed.
C15_Witness ==
    /\ last.op = "umountImage" /\ last.res = "ok"
    /\ prev = [op |-> "mountImage", res |-> "err"]
    /\ Len(last.cmds) = 2
    /\ last.cmds[2].tool = "os.Remove"
    /\ Bound(last.pre.host) # {} /\ Bound(host) = {}

\* The recorded path of the builder vv, if any, exists on the host h.
PathThere(vv, h) == vv.loopDevice = "" \/ PathExists(h, vv.loopDevice)

\* The last call started with an attempt to bind a loop device.
FreshAttach ==
    /\ last.cmds # <<>>
    /\ last.cmds[1].tool = "losetup"
    /\ last.cmds[1].args = <<"-P", "-f", "--show", last.pre.v.imageFile>>

\* C16, as amended: when umountImage returns success, called with no path
\* recorded or with a recorded path that exists on the host, the recorded
\* path is empty and getUEFIDevFile and getRootfsDevFile give "", and a
\* mountImage called next starts with a bind.
C16_DetachedAfterUmountImage ==
    /\ (last.op = "umountImage" /\ last.res = "ok"
        /\ PathThere(last.pre.v, last.pre.host))
       => /\ v.loopDevice = ""
          /\ getUEFIDevFile(v) = "" /\ getRootfsDevFile(v) = ""
    /\ (last.op = "mountImage"
        /\ prev = [op |-> "umountImage", res |-> "ok"]
        /\ PathThere(last.pre.v, last.pre.host))
       => FreshAttach

\* A mountImage bound a loop device right after a umountImage that had
\* returned success.
C16_Witness ==
    /\ last.op = "mountImage"
    /\ prev = [op |-> "umountImage", res |-> "ok"]
    /\ FreshAttach /\ BoundByLast
    /\ last.pre.host.image.table # <<>>

\* C16 as claimed: whenever umountImage returns success the recorded path is
\* empty and getUEFIDevFile and getRootfsDevFile give "".
C16_SuccessMeansDetached ==
    (last.op = "umountImage" /\ last.res = "ok")
    => /\ v.loopDevice = ""
       /\ getUEFIDevFile(v) = "" /\ getRootfsDevFile(v) = ""

\* C17, as amended: whenever a loop device is bound to the image file, its
\* path is the recorded one; and whenever a path is recorded, the device it
\* names is bound, or else one of its partition device files is still there
\* (umountImage unbound the device and failed at a removal).
C17_RecordedIffBound ==
    /\ \A d \in Bound(host) : Built /\ v.loopDevice = d
    /\ (Built /\ v.loopDevice # "" /\ v.loopDevice \notin Bound(host))
       => \/ PathExists(host, getUEFIDevFile(v))
          \/ PathExists(host, getRootfsDevFile(v))

\* A path is recorded, no loop device is bound, and umountImage has just
\* failed at a removal.
C17_Witness ==
    /\ last.op = "umountImage" /\ last.res = "err"
    /\ last.cmds[1].ok
    /\ v.loopDevice # "" /\ Bound(host) = {}

\* C17 as claimed: the recorded path is non-empty exactly when a loop device
\* is bound to the image file.
C17_RecordedExactlyWhenBound ==
    Built => (v.loopDevice # "" <=> Bound(host) # {})

\* C18: a mountImage whose losetup fails returns an error having run no
\* other command, with the recorded path still empty and the host as it
\* was; and a mountImage called right after a mountImage that failed without
\* recording a path starts with a bind again.
C18_BindFailureLeavesDetached ==
    /\ (last.op = "mountImage" /\ last.cmds # <<>> /\ ~last.cmds[1].ok)
       => /\ last.res = "err"
          /\ Len(last.cmds) = 1
          /\ v.loopDevice = ""
          /\ NoEffect
    /\ (last.op = "mountImage"
        /\ prev = [op |-> "mountImage", res |-> "err"]
        /\ last.pre.v.loopDevice = "")
       => FreshAttach

\* After a mountImage whose bind failed, mountImage bound a loop device.
C18_Witness ==
    /\ last.op = "mountImage"
    /\ prev = [op |-> "mountImage", res |-> "err"]
    /\ last.pre.v.loopDevice = ""
    /\ FreshAttach /\ BoundByLast

\* The three partitioning commands on the image file: erase the table,
\* partition 1 of 100 MiB and type EF00, partition 2 of the rest and type
\* 8300.
Partitioning ==
    << <<ImagePath, "--zap-all">>,
       <<ImagePath, "--new=1::+100M", "-t 1:EF00">>,
       <<ImagePath, "--new=2::", "-t 2:8300">> >>

\* C19: the commands of createPartitions are the first ones of the three
\* partitioning commands, in their order, all but the last of them having
\* succeeded; it returns success exactly when all three were run and
\* succeeded, and an error exactly when the last one it ran failed; this is
\* so with or without a recorded loop device path, which it leaves alone.
C19_PartitioningOrder ==
    last.op = "createPartitions" =>
        LET n == Len(last.cmds) IN
        /\ n \in 1..3
        /\ \A i \in 1..n : /\ last.cmds[i].tool = "sgdisk"
                           /\ last.cmds[i].args = Partitioning[i]
        /\ \A i \in 1..(n - 1) : last.cmds[i].ok
        /\ last.res \in {"ok", "err"}
        /\ last.res = "ok" <=> (n = 3 /\ AllRan(last.cmds))
        /\ last.res = "err" <=> ~last.cmds[n].ok
        /\ v = last.pre.v

\* createPartitions, called with a path recorded, stopped at its second
\* command, which failed.
C19_Witness ==
    /\ last.op = "createPartitions" /\ last.res = "err"
    /\ Len(last.cmds) = 2
    /\ last.pre.v.loopDevice # ""

=============================================================================
